---- MODULE Spec2Model ----
(***************************************************************************)
(* Model of package xz (src/xz.go): the compressing Writer, the            *)
(* decompressing Reader and the driver loop runLzma that steps an lzma     *)
(* stream and copies its output to an io.Writer.                           *)
(*                                                                         *)
(* The lzma package (lzma.Stream, lzma.Code, ...) is modelled from the     *)
(* codec engine contract of the specification (sections 3, 4.1 and 6) as   *)
(* a small container codec: one header byte, the payload, one footer byte. *)
(* The encoder takes at most one pending input byte per step and emits the *)
(* payload a block at a time, a block of equal bytes as one byte; what is  *)
(* left goes out with the footer.                                          *)
(***************************************************************************)
EXTENDS Integers, Sequences, FiniteSets, TLC

\* ---------------------------------------------------------------- bounds
MaxLen == 3        \* total number of bytes handed to Writer.Write
MaxChunk == 2      \* longest p of one Writer.Write call
MaxCloses == 2     \* number of Close calls on one adapter
MaxL == 2          \* largest len(p) of a Reader.Read call
MaxFail == 2       \* a sink failure hits one of the first MaxFail writes of a call
LevelExcess == 2   \* how far outside BestSpeed..BestCompression levels are tried
MaxFinishSteps == 2 \* Finish steps the engine may answer before StreamEnd or a fault

Byte == {0, 1}

\* ------------------------------------------------------- program constants
BestSpeed == 0
BestCompression == 9
DefaultCompression == 6

\* levels handed to NewWriterLevel: NewWriter's, and every level tried
Levels == {DefaultCompression}

AllLevels == (BestSpeed - LevelExcess)..(BestCompression + LevelExcess)

\* ---------------------------------------------------------------- helpers
Min(a, b) == IF a < b THEN a ELSE b

Take(s, n) == SubSeq(s, 1, Min(n, Len(s)))

Drop(s, n) == SubSeq(s, Min(n, Len(s)) + 1, Len(s))

SeqsUpTo(n) == UNION {[1..k -> Byte] : k \in 0..n}

\* ------------------------------------------------------------ error values
nil == "nil"
EOF == "io.EOF"
ErrSink == "sink error"
ErrUpstream == "upstream error"

\* LzmaError{result: result}
LzmaError(result) == "LzmaError " \o result

\* lzma.Return.IsErr: every result but Ok and StreamEnd is an engine fault
IsErr(result) == result \notin {"Ok", "StreamEnd"}

\* ------------------------------------------------- the codec engine (lzma)
BlockSize == 3     \* the encoder emits payload in blocks of this many bytes
MagicHeader == 8   \* first byte of a container
MagicFooter == 9   \* last byte of a container

EncByte(b) == b + 2
DecByte(c) == c - 2
IsPayload(c) == DecByte(c) \in Byte

\* a block of BlockSize bytes b is one byte
EncRun(b) == b + 4
DecRun(c) == c - 4
IsRun(c) == DecRun(c) \in Byte

RECURSIVE EncSeq(_)
EncSeq(s) == IF s = <<>> THEN <<>> ELSE <<EncByte(Head(s))>> \o EncSeq(Tail(s))

\* the whole blocks at the front of s
RECURSIVE EncBlocks(_)
EncBlocks(s) ==
  IF Len(s) < BlockSize THEN <<>>
  ELSE (IF \A i \in 1..BlockSize : s[i] = s[1]
        THEN <<EncRun(s[1])>>
        ELSE EncSeq(Take(s, BlockSize)))
       \o EncBlocks(Drop(s, BlockSize))

\* lzma.NewStream followed by lzma.EasyEncoder / lzma.StreamDecoder
NewStream(mode, level, initRet) ==
  [ mode     |-> mode,        \* "enc" or "dec"
    level    |-> level,
    ok       |-> initRet = "Ok",
    in       |-> <<>>,        \* pending input
    totalIn  |-> 0,
    out      |-> <<>>,        \* output of the last step, not yet taken
    held     |-> <<>>,        \* encoder: payload not yet emitted
    ph       |-> "header",    \* "header", "body", "end"
    released |-> 0 ]          \* number of Close calls on the stream

SetInput(s, p) == [s EXCEPT !.in = p]

AvailIn(s) == Len(s.in)

TotalIn(s) == s.totalIn

\* Stream.Output: returns the output buffer; Cleared is the stream afterwards
Output(s) == s.out

Cleared(s) == [s EXCEPT !.out = <<>>]

StreamClose(s) == [s EXCEPT !.released = @ + 1]

EncCode(s, action) ==
  LET c    == Min(1, Len(s.in))
      hdr  == IF s.ph = "header" THEN <<MagicHeader>> ELSE <<>>
      data == s.held \o Take(s.in, c)
      rest == Drop(s.in, c)
      nblk == Len(data) \div BlockSize
      done == action = "Finish" /\ rest = <<>>
  IN  IF s.ph = "end"
      THEN [s |-> s, result |-> "StreamEnd"]
      ELSE IF done
      THEN [s |-> [s EXCEPT !.in = rest, !.totalIn = @ + c, !.held = <<>>,
                            !.ph = "end",
                            !.out = hdr \o EncBlocks(data)
                                        \o EncSeq(Drop(data, nblk * BlockSize))
                                        \o <<MagicFooter>>],
            result |-> "StreamEnd"]
      ELSE [s |-> [s EXCEPT !.in = rest, !.totalIn = @ + c,
                            !.held = Drop(data, nblk * BlockSize),
                            !.ph = "body",
                            !.out = hdr \o EncBlocks(data)],
            result |-> "Ok"]

DecCode(s, action) ==
  IF s.ph = "end" THEN [s |-> s, result |-> "StreamEnd"]
  ELSE IF s.in = <<>>
  THEN [s |-> s, result |-> IF action = "Finish" THEN "BufError" ELSE "Ok"]
  ELSE LET b  == Head(s.in)
           s1 == [s EXCEPT !.in = Tail(@), !.totalIn = @ + 1]
       IN  IF s.ph = "header"
           THEN IF b = MagicHeader
                THEN [s |-> [s1 EXCEPT !.ph = "body"], result |-> "Ok"]
                ELSE [s |-> s1, result |-> "FormatError"]
           ELSE IF b = MagicFooter
                THEN [s |-> [s1 EXCEPT !.ph = "end"], result |-> "StreamEnd"]
           ELSE IF IsPayload(b)
                THEN [s |-> [s1 EXCEPT !.out = <<DecByte(b)>>], result |-> "Ok"]
           ELSE IF IsRun(b)
                THEN [s |-> [s1 EXCEPT !.out = [i \in 1..BlockSize |-> DecRun(b)]],
                      result |-> "Ok"]
                ELSE [s |-> s1, result |-> "DataError"]

\* lzma.Code: one step.  A stream whose initialisation failed, or that has
\* been closed, answers every step with ProgError and does nothing else.
Code(s, action) ==
  IF ~s.ok \/ s.released > 0 THEN [s |-> s, result |-> "ProgError"]
  ELSE IF s.mode = "enc" THEN EncCode(s, action)
  ELSE DecCode(s, action)

\* ------------------------------------------------------------- the driver
\* One iteration of the loop of runLzma is one entry of the trace.
StepRec(s, action, c, wrote) ==
  [ action   |-> action,
    availIn  |-> AvailIn(s),
    released |-> s.released > 0,
    result   |-> c.result,
    consumed |-> AvailIn(s) - AvailIn(c.s),
    taken    |-> Take(s.in, AvailIn(s) - AvailIn(c.s)),
    output   |-> Output(c.s),
    wrote    |-> wrote ]

\* The loop of runLzma.  failAt = k > 0: the k-th w.Write of this call
\* fails (and takes no bytes); failAt = 0: every w.Write succeeds.
\* runLoop is the head of an iteration, runStep what follows lzma.Code,
\* whose answer is c.
RECURSIVE runLoop(_, _, _, _, _, _)
RECURSIVE runStep(_, _, _, _, _, _, _)
runStep_StatusFirst(s, act, c, finish, failAt, out, trace) ==
  IF act = "Finish" /\ c.result = "StreamEnd"
  THEN [s |-> c.s, err |-> nil, out |-> out,
        trace |-> Append(trace, StepRec(s, act, c, FALSE))]
  ELSE IF failAt = Len(trace) + 1
  THEN [s |-> Cleared(c.s), err |-> ErrSink, out |-> out,
        trace |-> Append(trace, StepRec(s, act, c, FALSE))]
  ELSE IF IsErr(c.result)
  THEN [s |-> Cleared(c.s), err |-> LzmaError(c.result), out |-> out \o Output(c.s),
        trace |-> Append(trace, StepRec(s, act, c, TRUE))]
  ELSE runLoop(Cleared(c.s), act, finish, failAt, out \o Output(c.s),
               Append(trace, StepRec(s, act, c, TRUE)))

runStep_CodecFirst(s, act, c, finish, failAt, out, trace) ==
  IF IsErr(c.result)
  THEN [s |-> Cleared(c.s), err |-> LzmaError(c.result), out |-> out,
        trace |-> Append(trace, StepRec(s, act, c, failAt # Len(trace) + 1))]
  ELSE IF failAt = Len(trace) + 1
  THEN [s |-> Cleared(c.s), err |-> ErrSink, out |-> out,
        trace |-> Append(trace, StepRec(s, act, c, FALSE))]
  ELSE IF act = "Finish" /\ c.result = "StreamEnd"
  THEN [s |-> Cleared(c.s), err |-> nil, out |-> out \o Output(c.s),
        trace |-> Append(trace, StepRec(s, act, c, TRUE))]
  ELSE runLoop(Cleared(c.s), act, finish, failAt, out \o Output(c.s),
               Append(trace, StepRec(s, act, c, TRUE)))

runStep_AnyStreamEnd(s, act, c, finish, failAt, out, trace) ==
  IF failAt = Len(trace) + 1
  THEN [s |-> Cleared(c.s), err |-> ErrSink, out |-> out,
        trace |-> Append(trace, StepRec(s, act, c, FALSE))]
  ELSE IF c.result = "StreamEnd"
  THEN [s |-> Cleared(c.s), err |-> nil, out |-> out \o Output(c.s),
        trace |-> Append(trace, StepRec(s, act, c, TRUE))]
  ELSE IF IsErr(c.result)
  THEN [s |-> Cleared(c.s), err |-> LzmaError(c.result), out |-> out \o Output(c.s),
        trace |-> Append(trace, StepRec(s, act, c, TRUE))]
  ELSE runLoop(Cleared(c.s), act, finish, failAt, out \o Output(c.s),
               Append(trace, StepRec(s, act, c, TRUE)))

runStep_OneStep(s, act, c, finish, failAt, out, trace) ==
  IF failAt = Len(trace) + 1
  THEN [s |-> Cleared(c.s), err |-> ErrSink, out |-> out,
        trace |-> Append(trace, StepRec(s, act, c, FALSE))]
  ELSE IF IsErr(c.result)
  THEN [s |-> Cleared(c.s), err |-> LzmaError(c.result), out |-> out \o Output(c.s),
        trace |-> Append(trace, StepRec(s, act, c, TRUE))]
  ELSE [s |-> Cleared(c.s), err |-> nil, out |-> out \o Output(c.s),
        trace |-> Append(trace, StepRec(s, act, c, TRUE))]

runStep(s, act, c, finish, failAt, out, trace) ==
  IF failAt = Len(trace) + 1
  THEN [s |-> Cleared(c.s), err |-> ErrSink, out |-> out,
        trace |-> Append(trace, StepRec(s, act, c, FALSE))]
  ELSE IF act = "Finish" /\ c.result = "StreamEnd"
  THEN [s |-> Cleared(c.s), err |-> nil, out |-> out \o Output(c.s),
        trace |-> Append(trace, StepRec(s, act, c, TRUE))]
  ELSE IF IsErr(c.result)
  THEN [s |-> Cleared(c.s), err |-> LzmaError(c.result), out |-> out \o Output(c.s),
        trace |-> Append(trace, StepRec(s, act, c, TRUE))]
  ELSE runLoop(Cleared(c.s), act, finish, failAt, out \o Output(c.s),
               Append(trace, StepRec(s, act, c, TRUE)))

runCode(s, act, finish, failAt, out, trace) ==
  runStep(s, act, Code(s, act), finish, failAt, out, trace)

runLoop_StepFirst(s, action, finish, failAt, out, trace) ==
  IF trace = <<>>
  THEN runCode(s, action, finish, failAt, out, trace)
  ELSE IF action = "Run" /\ AvailIn(s) = 0
  THEN IF ~finish
       THEN [s |-> s, err |-> nil, out |-> out, trace |-> trace]
       ELSE runCode(s, "Finish", finish, failAt, out, trace)
  ELSE runCode(s, action, finish, failAt, out, trace)

runLoop(s, action, finish, failAt, out, trace) ==
  IF action = "Run" /\ AvailIn(s) = 0
  THEN IF ~finish
       THEN [s |-> s, err |-> nil, out |-> out, trace |-> trace]
       ELSE runCode(s, "Finish", finish, failAt, out, trace)
  ELSE runCode(s, action, finish, failAt, out, trace)

runLzma(s, finish, failAt) == runLoop(s, "Run", finish, failAt, <<>>, <<>>)

\* ------------------------------------------------------------- the Writer
ClampLevel_NoUpper(level) == IF level < BestSpeed THEN BestSpeed ELSE level

\* NewWriterLevel: the level is rounded into BestSpeed..BestCompression; the
\* result of the encoder initialisation is logged, not returned.
ClampLevel(level) ==
  IF level < BestSpeed THEN BestSpeed
  ELSE IF level > BestCompression THEN BestCompression
  ELSE level

NewWriterLevel(level, initRet) ==
  [ lzmaStream |-> NewStream("enc", ClampLevel(level), initRet),
    lastErr    |-> nil ]

\* What a Writer call leaves and returns, res being the result of its runLzma;
\* out is what reached z.w
WriterResult(z, s, n, res) ==
  [ z     |-> [z EXCEPT !.lzmaStream = s],
    n     |-> n,
    err   |-> res.err,
    out   |-> res.out,
    trace |-> res.trace ]

WriteReturn_CountsOutput(z, start, res) == WriterResult(z, res.s, Len(res.out), res)

\* Writer.Write behind SetInput, start being TotalIn() before runLzma
WriteReturn(z, start, res) == WriterResult(z, res.s, TotalIn(res.s) - start, res)

\* Writer.Write(p)
Write(z, p, failAt) ==
  WriteReturn(z, TotalIn(SetInput(z.lzmaStream, p)),
              runLzma(SetInput(z.lzmaStream, p), FALSE, failAt))

CloseReturn_SkipOnError(z, res) ==
  WriterResult(z, IF res.err = nil THEN StreamClose(res.s) ELSE res.s, 0, res)

\* Writer.Close behind runLzma
CloseReturn(z, res) == WriterResult(z, StreamClose(res.s), 0, res)

\* Writer.Close()
WriterClose(z, failAt) == CloseReturn(z, runLzma(z.lzmaStream, TRUE, failAt))

\* ------------------------------------------------------------- the Reader
NewReader(initRet) ==
  [ lzmaStream    |-> NewStream("dec", BestSpeed, initRet),
    buf           |-> <<>>,
    inputFinished |-> FALSE,
    lastErr       |-> nil ]

\* z.r.Read(q) with len(q) = sizeHint: the answers an io.Reader holding src
\* can give.  up = [m |-> bytes returned, err |-> nil, EOF or an I/O error];
\* EOF comes with, or after, the last bytes.
UpstreamAnswers(src, sizeHint) ==
  { up \in [m : 0..sizeHint, err : {nil, EOF, ErrUpstream}] :
      /\ up.m <= Len(src)
      /\ up.err = EOF => up.m = Len(src)
      /\ up.err = ErrUpstream => up.m = 0 }

\* bytes.Buffer.Read(p) with len(p) = L on a buffer holding buf
BufRead(buf, L) ==
  IF buf = <<>>
  THEN [n |-> 0, err |-> IF L = 0 THEN nil ELSE EOF, data |-> <<>>, buf |-> <<>>]
  ELSE [n |-> Min(L, Len(buf)), err |-> nil, data |-> Take(buf, L), buf |-> Drop(buf, L)]

\* What populateBuffer leaves and returns
Populated(z, src, err, upReads, trace) ==
  [z |-> z, src |-> src, err |-> err, upReads |-> upReads, trace |-> trace]

PumpedInto_Overwrite(z, src, up, res) ==
  Populated([z EXCEPT !.inputFinished = up.err = EOF,
                      !.lzmaStream = res.s,
                      !.buf = res.out],
            Drop(src, up.m), res.err, 1, res.trace)

\* Reader.populateBuffer behind z.r.Read, res being the result of runLzma
\* with w = &z.buf
PumpedInto(z, src, up, res) ==
  Populated([z EXCEPT !.inputFinished = up.err = EOF,
                      !.lzmaStream = res.s,
                      !.buf = @ \o res.out],
            Drop(src, up.m), res.err, 1, res.trace)

populateBuffer_Reread(z, src, sizeHint, up) ==
  IF up.err # nil /\ up.err # EOF
  THEN Populated(z, Drop(src, up.m), up.err, 1, <<>>)
  ELSE PumpedInto(z, src, up,
                  runLzma(SetInput(z.lzmaStream, Take(src, up.m)), up.err = EOF, 0))

populateBuffer_NoFinish(z, src, sizeHint, up) ==
  IF z.inputFinished
  THEN Populated(z, src, nil, 0, <<>>)
  ELSE IF up.err # nil /\ up.err # EOF
  THEN Populated(z, Drop(src, up.m), up.err, 1, <<>>)
  ELSE PumpedInto(z, src, up,
                  runLzma(SetInput(z.lzmaStream, Take(src, up.m)), FALSE, 0))

\* Reader.populateBuffer(sizeHint); up is the answer of z.r.Read
populateBuffer(z, src, sizeHint, up) ==
  IF z.inputFinished
  THEN Populated(z, src, nil, 0, <<>>)
  ELSE IF up.err # nil /\ up.err # EOF
  THEN Populated(z, Drop(src, up.m), up.err, 1, <<>>)
  ELSE PumpedInto(z, src, up,
                  runLzma(SetInput(z.lzmaStream, Take(src, up.m)), up.err = EOF, 0))

\* What a Read leaves and returns
ReadResult(z, src, n, err, data, upReads, trace) ==
  [z |-> z, src |-> src, n |-> n, err |-> err, data |-> data,
   upReads |-> upReads, trace |-> trace]

\* n, z.lastErr = z.buf.Read(p); return n, z.lastErr
ReadDrain(z, pop, rd) ==
  ReadResult([z EXCEPT !.buf = rd.buf, !.lastErr = rd.err],
             pop.src, rd.n, rd.err, rd.data, pop.upReads, pop.trace)

\* Reader.Read behind populateBuffer, whose result is pop
ReadAfter(pop, L) ==
  IF pop.err # nil
  THEN ReadResult([pop.z EXCEPT !.lastErr = pop.err], pop.src, 0, pop.err, <<>>,
                  pop.upReads, pop.trace)
  ELSE ReadDrain(pop.z, pop, BufRead(pop.z.buf, L))

ReadFill_AlwaysFill(z, src, L, up) ==
  ReadAfter(populateBuffer(z, src, L, up), L)

\* The body of Reader.Read behind its two early returns
ReadFill(z, src, L, up) ==
  IF Len(z.buf) < L
  THEN ReadAfter(populateBuffer(z, src, L, up), L)
  ELSE ReadAfter(Populated(z, src, nil, 0, <<>>), L)

Read_NoLatch(z, src, L, up) ==
  IF L = 0
  THEN ReadResult(z, src, 0, nil, <<>>, 0, <<>>)
  ELSE ReadFill(z, src, L, up)

Read_LatchFirst(z, src, L, up) ==
  IF z.lastErr # nil
  THEN ReadResult(z, src, 0, z.lastErr, <<>>, 0, <<>>)
  ELSE IF L = 0
  THEN ReadResult(z, src, 0, nil, <<>>, 0, <<>>)
  ELSE ReadFill(z, src, L, up)

\* Reader.Read(p) with len(p) = L
Read(z, src, L, up) ==
  IF L = 0
  THEN ReadResult(z, src, 0, nil, <<>>, 0, <<>>)
  ELSE IF z.lastErr # nil
  THEN ReadResult(z, src, 0, z.lastErr, <<>>, 0, <<>>)
  ELSE ReadFill(z, src, L, up)

\* Reader.Close()
ReaderClose(z) ==
  [z |-> [z EXCEPT !.lzmaStream = StreamClose(@)], err |-> nil]

\* ------------------------------------------------------------------ state
VARIABLES
  zw,         \* the Writer
  sink,       \* the bytes the Writer's io.Writer has taken
  zr,         \* the Reader
  r,          \* what the Reader's io.Reader has still to give
  reading,    \* FALSE: the Writer is in use; TRUE: the Reader is in use
  last,       \* the last call: its arguments, results and the work it did
  hist,       \* what the callers have seen so far
  pump        \* one runLzma call taken iteration by iteration (SpecPump only)

vars == <<zw, sink, zr, r, reading, last, hist, pump>>

Call(op, len, n, err, data, upReads, trace) ==
  [op |-> op, len |-> len, n |-> n, err |-> err, data |-> data,
   upReads |-> upReads, trace |-> trace]

RECURSIVE TraceOutput(_)
TraceOutput(trace) ==
  IF trace = <<>> THEN <<>> ELSE Head(trace).output \o TraceOutput(Tail(trace))

RECURSIVE TraceTaken(_)
TraceTaken(trace) ==
  IF trace = <<>> THEN <<>> ELSE Head(trace).taken \o TraceTaken(Tail(trace))

\* the output of the iterations whose w.Write succeeded
RECURSIVE TraceWritten(_)
TraceWritten(trace) ==
  IF trace = <<>> THEN <<>>
  ELSE (IF Head(trace).wrote THEN Head(trace).output ELSE <<>>)
       \o TraceWritten(Tail(trace))

SinkFailedIn(trace) == \E i \in 1..Len(trace) : ~trace[i].wrote

StreamEndIn(trace) == \E i \in 1..Len(trace) : trace[i].result = "StreamEnd"

\* The state after NewWriterLevel(w, level), level being one of levels
InitWith(levels) ==
  \E level \in levels, initRet \in {"Ok", "MemError"} :
  /\ zw = NewWriterLevel(level, initRet)
  /\ sink = <<>>
  /\ zr = NewReader("Ok")
  /\ r = <<>>
  /\ reading = FALSE
  /\ last = Call("New", 0, 0, nil, <<>>, 0, <<>>)
  /\ hist = [ level     |-> level,  \* the level NewWriterLevel was given
              written   |-> <<>>,   \* the p of every Write, in order
              taken     |-> <<>>,   \* the input the Writer's stream has consumed
              emitted |-> <<>>,   \* the output of the Writer's stream, in order
              sinkFailed |-> FALSE, \* a Write of the sink has failed
              wErr      |-> nil,    \* the first error a Write returned
              wCloses   |-> 0,
              closeErr  |-> nil,    \* what the first Writer.Close returned
              fed       |-> <<>>,   \* what the Reader's io.Reader held at first
              delivered |-> <<>>,   \* the bytes Read has returned, in order
              produced  |-> <<>>,   \* the output of the Reader's stream, in order
              rErr      |-> nil,    \* the first error a Read with len(p) > 0 returned
              reRead    |-> FALSE,  \* Read was called with len(p) > 0 after that error
              upZero    |-> FALSE,  \* the io.Reader has answered (0, nil)
              streamEnd |-> FALSE,  \* the Reader's stream has reported StreamEnd
              rCloses   |-> 0 ]

\* no runLzma call is being followed iteration by iteration
IdlePump ==
  [op |-> "none", pc |-> "returned", finish |-> FALSE, action |-> "Run", fed |-> 0,
   availIn |-> 0, left |-> 0, result |-> "Ok", err |-> nil]

Init == InitWith(Levels) /\ pump = IdlePump

\* z.Write(p) on the Writer
DoWrite ==
  /\ ~reading
  /\ \E p \in SeqsUpTo(MaxChunk), failAt \in 0..MaxFail :
        /\ Len(hist.written) + Len(p) <= MaxLen
        /\ \E res \in {Write(zw, p, failAt)} :
              /\ zw' = res.z
              /\ sink' = sink \o res.out
              /\ last' = Call("Write", Len(p), res.n, res.err, res.out, 0, res.trace)
              /\ hist' = [hist EXCEPT !.written = @ \o p,
                                      !.taken = @ \o TraceTaken(res.trace),
                                      !.emitted = @ \o TraceOutput(res.trace),
                                      !.sinkFailed = @ \/ SinkFailedIn(res.trace),
                                      !.wErr = IF @ = nil THEN res.err ELSE @]
  /\ UNCHANGED <<zr, r, reading, pump>>

\* z.Close() on the Writer
DoWriterClose ==
  /\ ~reading
  /\ hist.wCloses < MaxCloses
  /\ \E failAt \in 0..MaxFail :
        \E res \in {WriterClose(zw, failAt)} :
           /\ zw' = res.z
           /\ sink' = sink \o res.out
           /\ last' = Call("WriterClose", 0, 0, res.err, res.out, 0, res.trace)
           /\ hist' = [hist EXCEPT !.wCloses = @ + 1,
                                   !.taken = @ \o TraceTaken(res.trace),
                                   !.emitted = @ \o TraceOutput(res.trace),
                                   !.sinkFailed = @ \/ SinkFailedIn(res.trace),
                                   !.closeErr = IF hist.wCloses = 0 THEN res.err ELSE @]
  /\ UNCHANGED <<zr, r, reading, pump>>

\* The Writer has been closed once and no call on it returned an error: the
\* sink holds one whole container.
WriterDone == hist.wCloses = 1 /\ hist.wErr = nil /\ hist.closeErr = nil

\* NewReader(r) on the container the sink holds, or on its first cut bytes
DoNewReader ==
  /\ ~reading
  /\ WriterDone
  /\ \E cut \in 0..Len(sink), initRet \in {"Ok", "MemError"} :
        /\ zr' = NewReader(initRet)
        /\ r' = Take(sink, cut)
        /\ hist' = [hist EXCEPT !.fed = Take(sink, cut)]
  /\ reading' = TRUE
  /\ last' = Call("NewReader", 0, 0, nil, <<>>, 0, <<>>)
  /\ UNCHANGED <<zw, sink, pump>>

\* z.Read(p) on the Reader
DoRead ==
  /\ reading
  /\ \E L \in 0..MaxL :
       \E up \in UpstreamAnswers(r, L) :
          \E res \in {Read(zr, r, L, up)} :
              /\ zr' = res.z
              /\ r' = res.src
              /\ last' = Call("Read", L, res.n, res.err, res.data, res.upReads, res.trace)
              /\ hist' = [hist EXCEPT
                            !.delivered = @ \o res.data,
                            !.produced = @ \o TraceOutput(res.trace),
                            !.rErr = IF @ = nil THEN res.err ELSE @,
                            !.reRead = @ \/ (hist.rErr # nil /\ L > 0),
                            !.upZero = @ \/ (res.upReads = 1 /\ up.m = 0 /\ up.err = nil),
                            !.streamEnd = @ \/ StreamEndIn(res.trace)]
  /\ UNCHANGED <<zw, sink, reading, pump>>

\* z.Close() on the Reader
DoReaderClose ==
  /\ reading
  /\ hist.rCloses < MaxCloses
  /\ \E res \in {ReaderClose(zr)} :
        /\ zr' = res.z
        /\ last' = Call("ReaderClose", 0, 0, res.err, <<>>, 0, <<>>)
  /\ hist' = [hist EXCEPT !.rCloses = @ + 1]
  /\ UNCHANGED <<zw, sink, r, reading, pump>>

Next ==
  \/ DoWrite
  \/ DoWriterClose
  \/ DoNewReader
  \/ DoRead
  \/ DoReaderClose

Spec == Init /\ [][Next]_vars

\* The Writer alone, constructed with every level of AllLevels
InitLevels == InitWith(AllLevels) /\ pump = IdlePump

NextWriter ==
  \/ DoWrite
  \/ DoWriterClose

SpecLevels == InitLevels /\ [][NextWriter]_vars

\* ------------------------------------------ runLzma, iteration by iteration
\* One call of runLzma taken a line at a time, against any engine that meets
\* what termination rests on: a Run step with pending input consumes a byte
\* or returns a fault, and Finish is answered by StreamEnd or a fault after
\* at most `left` further steps.

Results == {"Ok", "StreamEnd", "BufError", "DataError"}

\* The answers lzmaStream.Code(action) may give with availIn bytes pending
CodeAnswers(action, availIn, left) ==
  { a \in [consumed : 0..availIn, result : Results] :
      /\ (action = "Run" /\ availIn > 0) => (a.consumed >= 1 \/ IsErr(a.result))
      /\ (action = "Finish" /\ left = 0) => (a.result = "StreamEnd" \/ IsErr(a.result)) }

\* runLzma(lzmaStream, w, finish) entered with n bytes of input set
StartPump(op, finish, n, left) ==
  [op |-> op, pc |-> "head", finish |-> finish, action |-> "Run", fed |-> n,
   availIn |-> n, left |-> left, result |-> "Ok", err |-> nil]

\* The calls of runLzma: Write with finish = false, Close with finish =
\* true, populateBuffer with finish = z.inputFinished
PumpCalls ==
  { StartPump(c.op, c.finish, n, left) :
      c \in { [op |-> "Write", finish |-> FALSE],
              [op |-> "WriterClose", finish |-> TRUE],
              [op |-> "Read", finish |-> FALSE],
              [op |-> "Read", finish |-> TRUE] },
      n \in 0..MaxLen, left \in 0..MaxFinishSteps }

HeadStep_NoBreak(p) ==
  IF p.action = "Run" /\ p.availIn = 0 /\ p.finish
  THEN [p EXCEPT !.action = "Finish", !.pc = "code"]
  ELSE [p EXCEPT !.pc = "code"]

\* if action == lzma.Run && lzmaStream.AvailIn() == 0 { ... }
HeadStep(p) ==
  IF p.action = "Run" /\ p.availIn = 0
  THEN IF ~p.finish
       THEN [p EXCEPT !.pc = "done", !.err = nil]
       ELSE [p EXCEPT !.action = "Finish", !.pc = "code"]
  ELSE [p EXCEPT !.pc = "code"]

\* result := lzmaStream.Code(action), a being the engine's answer
CodeStep(p, a) ==
  [p EXCEPT !.availIn = @ - a.consumed,
            !.left = IF p.action = "Finish" /\ @ > 0 THEN @ - 1 ELSE @,
            !.result = a.result,
            !.pc = "write"]

\* _, err = w.Write(lzmaStream.Output()); if err != nil { return err }
WriteStep(p, ok) ==
  IF ok THEN [p EXCEPT !.pc = "status"]
  ELSE [p EXCEPT !.pc = "done", !.err = ErrSink]

\* the StreamEnd and IsErr tests that end an iteration
StatusStep(p) ==
  IF p.action = "Finish" /\ p.result = "StreamEnd"
  THEN [p EXCEPT !.pc = "done", !.err = nil]
  ELSE IF IsErr(p.result)
  THEN [p EXCEPT !.pc = "done", !.err = LzmaError(p.result)]
  ELSE [p EXCEPT !.pc = "head"]

PumpHead ==
  /\ pump.pc = "head"
  /\ pump' = HeadStep(pump)
  /\ UNCHANGED <<zw, sink, zr, r, reading, last, hist>>

PumpCode ==
  /\ pump.pc = "code"
  /\ \E a \in CodeAnswers(pump.action, pump.availIn, pump.left) :
        pump' = CodeStep(pump, a)
  /\ UNCHANGED <<zw, sink, zr, r, reading, last, hist>>

PumpWrite ==
  /\ pump.pc = "write"
  /\ \E ok \in BOOLEAN :
        /\ (pump.op = "Read" => ok)     \* a bytes.Buffer takes every Write
        /\ pump' = WriteStep(pump, ok)
  /\ UNCHANGED <<zw, sink, zr, r, reading, last, hist>>

PumpStatus ==
  /\ pump.pc = "status"
  /\ pump' = StatusStep(pump)
  /\ UNCHANGED <<zw, sink, zr, r, reading, last, hist>>

\* runLzma has returned: what is left of Write, Close or Read is straight-line
PumpReturn ==
  /\ pump.pc = "done"
  /\ pump' = [pump EXCEPT !.pc = "returned"]
  /\ UNCHANGED <<zw, sink, zr, r, reading, last, hist>>

InitPump == InitWith(Levels) /\ pump \in PumpCalls

NextPump ==
  \/ PumpHead
  \/ PumpCode
  \/ PumpWrite
  \/ PumpStatus
  \/ PumpReturn

SpecPump == InitPump /\ [][NextPump]_vars /\ WF_vars(NextPump)

\* ----------------------------------------------------------- properties
\* The error runLzma returns, read off the last iteration of its loop
PumpErr(trace) ==
  IF trace = <<>> THEN nil
  ELSE LET e == trace[Len(trace)]
       IN  IF ~e.wrote THEN ErrSink
           ELSE IF e.action = "Finish" /\ e.result = "StreamEnd" THEN nil
           ELSE IF IsErr(e.result) THEN LzmaError(e.result)
           ELSE nil

RECURSIVE SumConsumed(_)
SumConsumed(trace) ==
  IF trace = <<>> THEN 0 ELSE Head(trace).consumed + SumConsumed(Tail(trace))

\* C1: round trip. When the Reader is given everything a Writer that was
\* fed B and closed without a fault has sent to its sink, its io.Reader
\* never answers zero bytes without an error, and a Read returns io.EOF,
\* the bytes the Reads have returned are exactly B.
C1_RoundTrip ==
  ( /\ reading
    /\ hist.fed = sink
    /\ zr.lzmaStream.ok
    /\ ~hist.upZero
    /\ last.op = "Read"
    /\ last.err = EOF )
  => hist.delivered = hist.written

\* C2: a Read returns io.EOF, and the Reader latches io.EOF, only when the
\* internal buffer is empty and the io.Reader has signalled end of input.
C2_EndMarkerOnlyAtEnd ==
  /\ (last.op = "Read" /\ last.err = EOF)
       => (last.n = 0 /\ zr.buf = <<>> /\ zr.inputFinished)
  /\ (reading /\ zr.lastErr = EOF) => zr.inputFinished

\* C3: when the io.Reader has signalled end of input and the stream has not
\* reported StreamEnd, a Read has returned a fault (an error that is not
\* io.EOF), and the Reader has not latched io.EOF.
C3_TruncatedStreamFaults ==
  (reading /\ zr.inputFinished /\ ~hist.streamEnd)
  => /\ hist.rErr \notin {nil, EOF}
     /\ zr.lastErr = hist.rErr

C3_Witness ==
  /\ reading
  /\ zr.inputFinished
  /\ ~hist.streamEnd
  /\ zr.lzmaStream.ok
  /\ zr.lzmaStream.released = 0
  /\ hist.delivered # <<>>
  /\ last.op = "Read"
  /\ last.err = LzmaError("BufError")

\* C4: once a Read with len(p) > 0 has returned an error E, every later
\* Read with len(p) > 0 returns (0, E), reads nothing from the io.Reader,
\* steps the stream not once and leaves the Reader as it is.
C4_ReaderErrorLatched ==
  [][ (hist.rErr # nil /\ last'.op = "Read" /\ last'.len > 0)
      => /\ last'.n = 0
         /\ last'.err = hist.rErr
         /\ last'.upReads = 0
         /\ last'.trace = <<>>
         /\ zr' = zr
         /\ r' = r ]_vars

C4_Witness ==
  /\ reading
  /\ hist.reRead
  /\ hist.rErr = ErrUpstream
  /\ r # <<>>
  /\ last.op = "Read"
  /\ last.len > 0
  /\ last.err = ErrUpstream

\* C5: once a Write has returned an error E, every later Write returns E,
\* steps the stream not once and writes nothing to the sink.
C5_WriterErrorLatched ==
  [][ (hist.wErr # nil /\ last'.op = "Write")
      => /\ last'.err = hist.wErr
         /\ last'.trace = <<>>
         /\ sink' = sink ]_vars

\* C6: the stream of an adapter is released at most once, and a second
\* Close does not step it.
C6_SingleRelease ==
  /\ zw.lzmaStream.released <= 1
  /\ zr.lzmaStream.released <= 1
  /\ (last.op = "WriterClose" /\ hist.wCloses > 1) => last.trace = <<>>

\* C7: no call steps a stream that has been released, and a Write after
\* Close returns an error.
C7_NoUseAfterRelease ==
  /\ \A i \in 1..Len(last.trace) : ~last.trace[i].released
  /\ (last.op = "Write" /\ hist.wCloses > 0) => last.err # nil

\* C8: a stream is released exactly when Close has been called on its
\* adapter, whatever the Writer's last runLzma or an earlier Write
\* returned; Writer.Close returns the error of its runLzma and
\* Reader.Close returns nil.
C8_CloseAlwaysReleases ==
  /\ (hist.wCloses > 0) <=> (zw.lzmaStream.released > 0)
  /\ (hist.rCloses > 0) <=> (zr.lzmaStream.released > 0)
  /\ last.op = "WriterClose" => last.err = PumpErr(last.trace)
  /\ last.op = "ReaderClose" => last.err = nil

C8_Witness ==
  /\ last.op = "WriterClose"
  /\ hist.wCloses = 1
  /\ hist.wErr = ErrSink
  /\ last.err = ErrSink
  /\ zw.lzmaStream.released = 1

\* C9: a Read with len(p) = 0 returns (0, nil), reads nothing from the
\* io.Reader, steps the stream not once and leaves the Reader as it is.
C9_ZeroLengthRead ==
  [][ (last'.op = "Read" /\ last'.len = 0)
      => /\ last'.n = 0
         /\ last'.err = nil
         /\ last'.upReads = 0
         /\ last'.trace = <<>>
         /\ zr' = zr
         /\ r' = r ]_vars

C9_Witness ==
  /\ last.op = "Read"
  /\ last.len = 0
  /\ last.err = nil
  /\ zr.lastErr \notin {nil, EOF}
  /\ zr.inputFinished
  /\ zr.buf # <<>>

\* C10: the n a Write returns is the number of bytes of p the stream took
\* during the call, it is between 0 and len(p), and it is len(p) when the
\* Write returns no error.
C10_WriteCount ==
  last.op = "Write"
  => /\ last.n = SumConsumed(last.trace)
     /\ 0 <= last.n
     /\ last.n <= last.len
     /\ last.err = nil => last.n = last.len

C10_Witness ==
  /\ last.op = "Write"
  /\ last.err = nil
  /\ last.n = 2
  /\ Len(last.data) # last.n

\* What reaches the sink of a fresh Writer of the given level on one
\* Write(B) followed by Close, w being the result of the Write
SinkAfterClose(w) == w.out \o WriterClose(w.z, 0).out

OneShotSink(level, B) == SinkAfterClose(Write(NewWriterLevel(level, "Ok"), B, 0))

\* C11: streaming equivalence. When a Writer has been fed B in any number
\* of Writes and closed, no call returning an error, its sink holds what
\* one Write(B) followed by Close sends to the sink of a Writer of the same
\* level; the input its stream has consumed is B, all of it before Finish.
C11_StreamingEquivalence ==
  (WriterDone /\ zw.lzmaStream.ok)
  => /\ sink = OneShotSink(hist.level, hist.written)
     /\ hist.taken = hist.written
     /\ last.op = "WriterClose"
          => \A i \in 1..Len(last.trace) :
                last.trace[i].action = "Finish" /\ last.trace[i].consumed = 0

C11_Witness ==
  /\ WriterDone
  /\ zw.lzmaStream.ok
  /\ last.op = "WriterClose"
  /\ Len(hist.written) > MaxChunk
  /\ sink = OneShotSink(hist.level, hist.written)

\* C12: the level the encoder is initialised with is
\* max(BestSpeed, min(BestCompression, level)) for the level NewWriterLevel
\* was given, and the Writer is the one NewWriterLevel makes of that level.
C12_LevelClamped ==
  LET lo == IF hist.level < BestCompression THEN hist.level ELSE BestCompression
      cl == IF lo > BestSpeed THEN lo ELSE BestSpeed
  IN  /\ zw.lzmaStream.level = cl
      /\ zw.lzmaStream.level \in BestSpeed..BestCompression
      /\ hist.level \in BestSpeed..BestCompression => zw.lzmaStream.level = hist.level
      /\ last.op = "New" => zw.lzmaStream = NewWriterLevel(cl, "Ok").lzmaStream
                            \/ zw.lzmaStream = NewWriterLevel(cl, "MemError").lzmaStream

C12_Witness ==
  /\ hist.level > BestCompression
  /\ zw.lzmaStream.level = BestCompression
  /\ last.op = "Write"
  /\ last.err = nil
  /\ last.n > 0

\* The last call ran runLzma with finish = true: Writer.Close does, and so
\* does the Read whose z.r.Read answered io.EOF
LastFinish ==
  \/ last.op = "WriterClose"
  \/ last.op = "Read" /\ last.upReads = 1 /\ zr.inputFinished

\* The last call ran runLzma with finish = false
LastRun ==
  \/ last.op = "Write"
  \/ last.op = "Read" /\ last.upReads = 1 /\ ~zr.inputFinished /\ last.err # ErrUpstream

\* The stream the last call stepped
LastStream == IF last.op = "Read" THEN zr.lzmaStream ELSE zw.lzmaStream

\* C13: no call steps the stream with Run while its pending input is empty;
\* a call with finish = false makes no Finish step, and once a call has
\* made a Finish step it makes no Run step.
C13_NoRunOnEmptyInput ==
  /\ \A i \in 1..Len(last.trace) :
        last.trace[i].action = "Run" => last.trace[i].availIn > 0
  /\ \A i \in 1..Len(last.trace) : \A j \in i..Len(last.trace) :
        last.trace[i].action = "Finish" => last.trace[j].action = "Finish"
  /\ LastRun => \A i \in 1..Len(last.trace) : last.trace[i].action = "Run"
  /\ (LastFinish /\ last.trace # <<>> /\ last.trace[1].availIn = 0)
       => last.trace[1].action = "Finish"

C13_Witness ==
  /\ last.op = "Read"
  /\ Len(last.trace) > 2
  /\ last.trace[1].action = "Run"
  /\ last.trace[Len(last.trace)].action = "Finish"
  /\ last.trace[Len(last.trace)].availIn = 0

C15_SinkErrorFirst ==
  last.op \in {"Write", "WriterClose"}
  => /\ \A i \in 1..Len(last.trace) :
           ~last.trace[i].wrote => (i = Len(last.trace) /\ last.err = ErrSink)
     /\ last.err = ErrSink => SinkFailedIn(last.trace)
     /\ last.err \notin {nil, ErrSink}
          => /\ last.trace # <<>>
             /\ last.trace[Len(last.trace)].wrote
             /\ IsErr(last.trace[Len(last.trace)].result)
             /\ last.err = LzmaError(last.trace[Len(last.trace)].result)

C15_Witness ==
  /\ last.op = "Write"
  /\ last.err = ErrSink
  /\ Len(last.trace) = 1
  /\ IsErr(last.trace[1].result)

\* C16: a runLzma with finish = true returns nil only when its last step
\* was a Finish step that returned StreamEnd; a runLzma with finish = false
\* returns nil only with no pending input and makes no Finish step.
C16_PumpSuccess ==
  /\ (LastFinish /\ last.err \in {nil, EOF})
       => /\ last.trace # <<>>
          /\ last.trace[Len(last.trace)].action = "Finish"
          /\ last.trace[Len(last.trace)].result = "StreamEnd"
  /\ (LastRun /\ last.err \in {nil, EOF}) => AvailIn(LastStream) = 0
  /\ LastRun => \A i \in 1..Len(last.trace) : last.trace[i].action # "Finish"

C16_Witness ==
  /\ last.op = "Read"
  /\ LastFinish
  /\ last.err = nil
  /\ \E i \in 1..Len(last.trace) :
        last.trace[i].action = "Run" /\ last.trace[i].result = "StreamEnd"

\* C17: io.EOF from z.r.Read sets z.inputFinished and is not the error of
\* the call: the bytes that came with it are fed to the stream, which is
\* run with finish = true.  The flag is never cleared, and a Read that
\* finds it set reads nothing from upstream and makes no step.  Any other
\* error of z.r.Read comes back from Read with 0 bytes and is latched,
\* without a step.
C17_StickyExhaustion ==
  [][ /\ zr.inputFinished => zr'.inputFinished
      /\ (zr.inputFinished /\ last'.op = "Read")
           => /\ last'.upReads = 0
              /\ last'.trace = <<>>
              /\ r' = r
              /\ zr'.lzmaStream = zr.lzmaStream
      /\ (~zr.inputFinished /\ zr'.inputFinished)
           => /\ last'.op = "Read"
              /\ last'.upReads = 1
              /\ r' = <<>>
              /\ last'.trace # <<>>
              /\ last'.trace[1].availIn = Len(r)
              /\ \/ last'.trace[Len(last'.trace)].action = "Finish"
                 \/ last'.err = PumpErr(last'.trace)
              /\ last'.err \in {nil, EOF, PumpErr(last'.trace)}
              /\ last'.err = EOF => zr.buf \o TraceOutput(last'.trace) = <<>>
      /\ (last'.op = "Read" /\ hist.rErr = nil /\ last'.err = ErrUpstream)
           => /\ last'.n = 0
              /\ last'.trace = <<>>
              /\ zr'.lastErr = ErrUpstream
              /\ zr'.lzmaStream = zr.lzmaStream
              /\ zr'.buf = zr.buf
              /\ ~zr'.inputFinished ]_vars

C17_Witness ==
  /\ reading
  /\ zr.inputFinished
  /\ ~hist.reRead
  /\ last.op = "Read"
  /\ last.len > 0
  /\ last.upReads = 0
  /\ last.trace = <<>>
  /\ hist.delivered # <<>>
  /\ hist.delivered = hist.written

\* C19: what the Reads have returned so far, followed by what z.buf holds,
\* is the output of the Reader's stream so far; a Read returns n <= len(p)
\* bytes from the front of z.buf, also when it returns an error.
C19_DeliveryOrder ==
  [][ /\ reading' => hist'.delivered \o zr'.buf = hist'.produced
      /\ last'.op = "Read"
           => /\ last'.n = Len(last'.data)
              /\ last'.n <= last'.len
              /\ last'.data = Take(zr.buf \o TraceOutput(last'.trace), last'.n)
              /\ zr'.buf = Drop(zr.buf \o TraceOutput(last'.trace), last'.n)
              /\ last'.err \notin {nil, EOF} => last'.n = 0 ]_vars

C19_Witness ==
  /\ reading
  /\ last.op = "Read"
  /\ last.err \notin {nil, EOF}
  /\ last.trace # <<>>
  /\ zr.buf # <<>>
  /\ hist.delivered # <<>>

\* C20: a Read(p) with no error latched and z.buf holding at least
\* len(p) >= 1 bytes returns (len(p), nil) without a z.r.Read and without a
\* step, and leaves z.inputFinished and the stream as they were; a Read
\* calls z.r.Read at most once, and only with fewer than len(p) bytes in
\* z.buf and z.inputFinished unset.
C20_BufferedRead ==
  [][ last'.op = "Read"
      => /\ (zr.lastErr = nil /\ last'.len >= 1 /\ Len(zr.buf) >= last'.len)
              => /\ last'.n = last'.len
                 /\ last'.err = nil
                 /\ last'.data = Take(zr.buf, last'.len)
                 /\ last'.upReads = 0
                 /\ last'.trace = <<>>
                 /\ r' = r
                 /\ zr'.inputFinished = zr.inputFinished
                 /\ zr'.lzmaStream = zr.lzmaStream
         /\ last'.upReads <= 1
         /\ last'.upReads = 1
              => /\ Len(zr.buf) < last'.len
                 /\ ~zr.inputFinished
                 /\ zr.lastErr = nil ]_vars

C20_Witness ==
  /\ reading
  /\ last.op = "Read"
  /\ last.len >= 1
  /\ last.n = last.len
  /\ last.err = nil
  /\ last.upReads = 0
  /\ hist.rErr = nil

\* C18: with a sink whose Write returns and an engine that consumes a byte
\* or faults on every Run step with pending input and answers Finish with
\* StreamEnd or a fault after finitely many steps, every runLzma returns,
\* and with it the Write, Close or Read that called it.
C18_PumpTerminates == <>(pump.pc = "returned")

C18_Witness ==
  /\ pump.pc = "returned"
  /\ pump.op = "WriterClose"
  /\ pump.fed = MaxLen
  /\ pump.availIn = 0
  /\ pump.left = 0
  /\ pump.action = "Finish"
  /\ pump.result = "StreamEnd"
  /\ pump.err = nil

====
